---- MODULE Spec2Model ----
(***************************************************************************)
(* Model of the file-reservation guard of mcp_agent_mail                   *)
(* (src/src/mcp_agent_mail/guard.py): the generated pre-commit and         *)
(* pre-push scripts, run as one short-lived process against an environment,*)
(* a reservation directory and a git repository.                           *)
(*                                                                         *)
(* Text is modelled as sequences of one-character strings, so that         *)
(* strip(), lower(), replace(), lstrip() and fnmatch act on characters.    *)
(* An optional value (an environment variable, a JSON field) is a sequence *)
(* of length 0 (unset / absent) or 1 (<<value>>).                          *)
(***************************************************************************)
EXTENDS Integers, Sequences, FiniteSets, TLC

(* ------------------------------------------------------------ bounds *)
\* most record files in the reservation directory
MaxRecords == 2
\* most entries in the index (staged changes)
MaxStaged == 2
\* most ref-update lines on the pre-push script's standard input
MaxLines == 2

(* ------------------------------------------------------- text helpers *)
Whitespace == {" ", "\t", "\n"}

RECURSIVE LStripSet(_, _)
\* str.lstrip(chars)
LStripSet(s, chars) ==
    IF s # <<>> /\ Head(s) \in chars THEN LStripSet(Tail(s), chars) ELSE s

RECURSIVE RStripSet(_, _)
\* str.rstrip(chars)
RStripSet(s, chars) ==
    IF s # <<>> /\ s[Len(s)] \in chars
    THEN RStripSet(SubSeq(s, 1, Len(s) - 1), chars)
    ELSE s

\* str.strip()
Strip(s) == RStripSet(LStripSet(s, Whitespace), Whitespace)

\* str.lower() on one character (the letters the model's inputs use)
LowerChar(c) ==
    CASE c = "A" -> "a" [] c = "D" -> "d" [] c = "E" -> "e" [] c = "R" -> "r"
      [] c = "S" -> "s" [] c = "T" -> "t" [] c = "U" -> "u" [] c = "V" -> "v"
      [] c = "W" -> "w" [] c = "Y" -> "y" [] c = "N" -> "n" [] c = "O" -> "o"
      [] OTHER -> c

\* str.lower()
Lower(s) == [i \in 1..Len(s) |-> LowerChar(s[i])]

\* A byte of a file name that is no valid UTF-8 (0x80), and a character
\* outside ASCII that is (its first byte is 0xC3)
Byte80 == "x80"
Ch_e == "e'"

\* bytes.decode("utf-8", "ignore"): bytes that decode to nothing are dropped
decode(bytes) == SelectSeq(bytes, LAMBDA c : c # Byte80)

\* str.replace("\\", "/")
ReplaceBackslash(s) == [i \in 1..Len(s) |-> IF s[i] = "\\" THEN "/" ELSE s[i]]

RECURSIVE fnmatchcase(_, _)
\* fnmatch.fnmatchcase(name, pat): "*" matches any run of characters, "?" any
\* one character, every other character itself (the inputs hold no "[").
fnmatchcase(name, pat) ==
    IF pat = <<>> THEN name = <<>>
    ELSE IF Head(pat) = "*"
         THEN fnmatchcase(name, Tail(pat))
              \/ (name # <<>> /\ fnmatchcase(Tail(name), pat))
         ELSE /\ name # <<>>
              /\ (Head(pat) = "?" \/ Head(pat) = Head(name))
              /\ fnmatchcase(Tail(name), Tail(pat))

\* fnmatch.fnmatch(name, pat): os.path.normcase on both, which is the identity
\* on POSIX, then fnmatchcase.
fnmatch(name, pat) == fnmatchcase(name, pat)

(* ------------------------------------------------------- option values *)
Unset == <<>>
Some(v) == <<v>>
\* dict.get(key): None when the key is absent
IsSet(o) == o # <<>>
\* dict.get(key, default)
Get(o, default) == IF o = <<>> THEN default ELSE o[1]

\* Python's "x or default": the default replaces an empty string (and None)
OrDefault(s, default) == IF s = <<>> THEN default ELSE s

(* --------------------------------------------------------- the inputs *)
A_ == "A"
B_ == "B"
Agents == {A_, B_}
\* a third agent, for a path that two other agents have reserved
C_ == "C"

P_sa == <<"s", "/", "a">>
P_sb == <<"s", "/", "b">>
\* a file whose name holds a glob character
P_sq == <<"s", "/", "?">>
\* a file name of one undecodable byte, and two names that sort after it
P_raw == <<Byte80>>
P_ea == <<Ch_e, "a">>
P_eb == <<Ch_e, "b">>
PathUniverse == {P_sa, P_sb, P_sq, P_raw, P_ea, P_eb}

\* path_pattern values: exact, glob, empty, one with a leading slash
Pat_star == <<"s", "/", "*">>
Pat_abs == <<"/", "s", "/", "a">>
\* ... and one padded with whitespace
Pat_pad == <<" ", "s", "/", "a">>
PatternUniverse == {P_sa, Pat_star, Pat_abs, Pat_pad, <<>>}

\* The instants of the model: the check runs at instant 1.
Instants == 0..2
Clock == {1}

\* expires_ts values: absent; an ISO string with an offset (an aware instant);
\* an ISO string without offset (naive); a string fromisoformat rejects.
ExpiresUniverse ==
    {[kind |-> "absent", t |-> 0], [kind |-> "naive", t |-> 0],
     [kind |-> "garbage", t |-> 0]}
    \cup {[kind |-> "aware", t |-> t] : t \in Instants}

\* What a *.json file of the reservation directory holds: text json.loads
\* rejects (or a file that cannot be read), JSON that is no object, or a JSON
\* object with the fields of a reservation record, each optional.
\* pattern_json is the JSON type of the path_pattern value.
CorruptFile == [json |-> "invalid"]
\* valid JSON that is no object, such as []
ArrayFile == [json |-> "array"]
RecordFiles ==
    [json : {"object"},
     agent : {Some(a) : a \in Agents},
     exclusive : {Unset, Some(TRUE), Some(FALSE)},
     expires_ts : ExpiresUniverse,
     path_pattern : {Some(p) : p \in PatternUniverse},
     pattern_json : {"string"}]
Rec(a, x, e, p) ==
    [json |-> "object", agent |-> Some(a), exclusive |-> x,
     expires_ts |-> e, path_pattern |-> Some(p), pattern_json |-> "string"]
\* a record whose path_pattern is the JSON number 7
NumberPattern(a, x, e) ==
    [json |-> "object", agent |-> Some(a), exclusive |-> x,
     expires_ts |-> e, path_pattern |-> Some(<<"7">>),
     pattern_json |-> "number"]
Future == [kind |-> "aware", t |-> 2]

\* environment values
V_0 == <<"0">>
V_1 == <<"1">>
V_Yes == <<" ", "Y", "e", "s", " ">>
V_no == <<"n", "o">>
V_TRUE == <<"T", "R", "U", "E">>
V_warn == <<"w", "a", "r", "n">>
V_Adv == <<" ", "A", "d", "v">>
V_advisory == <<"a", "d", "v", "i", "s", "o", "r", "y">>
V_block == <<"b", "l", "o", "c", "k">>
V_bogus == <<"w", "a", "r", "n", "s">>
FlagValues == {Unset, Some(<<>>), Some(V_0), Some(V_1), Some(V_Yes), Some(V_no)}
ModeValues ==
    {Unset, Some(<<>>), Some(V_block), Some(V_warn), Some(V_Adv),
     Some(V_advisory), Some(V_bogus)}
BypassValues == {Unset, Some(V_0), Some(V_TRUE), Some(V_1)}
NameValues == {Unset, Some(""), Some(A_), Some(B_)}

(* -------------------------------------------- configuration (env reads) *)
Truthy ==
    {<<"1">>, <<"t", "r", "u", "e">>, <<"t">>, <<"y", "e", "s">>, <<"y">>}

\* (mutant) the flag defaults to on when the variable is unset
FlagOn_DefaultOn(v) == Lower(Strip(OrDefault(Get(v, V_1), V_0))) \in Truthy

\* (os.environ.get(NAME, "0") or "0").strip().lower() in {...}
FlagOn(v) == Lower(Strip(OrDefault(Get(v, V_0), V_0))) \in Truthy

\* (os.environ.get("AGENT_MAIL_GUARD_MODE", "block") or "block").strip().lower()
ModeOf(v) == Lower(Strip(OrDefault(Get(v, V_block), V_block)))

AdvisoryModes == {V_warn, <<"a", "d", "v">>, V_advisory}
\* (mutant) the short form "adv" is not recognised
IsAdvisory_NoAdv(mode) == mode \in {V_warn, V_advisory}

\* ADVISORY = MODE in {"warn", "advisory", "adv"}
IsAdvisory(mode) == mode \in AdvisoryModes

(* ------------------------------------------------- conflict evaluation *)
\* What dict.get("agent") gives for a record without the field
None == "None"

\* datetime.fromisoformat(expires): raises on text that is no ISO timestamp;
\* otherwise a datetime, aware (with an offset) or naive
fromisoformat(e) ==
    IF e.kind \in {"aware", "naive"}
    THEN [raised |-> FALSE, aware |-> e.kind = "aware", t |-> e.t]
    ELSE [raised |-> TRUE, aware |-> FALSE, t |-> 0]

\* (mutant) a timestamp that cannot be parsed or compared counts as expired
ExpiredSkip_FailOpen(e, now_) ==
    /\ e.kind # "absent"
    /\ LET dt == fromisoformat(e)
       IN dt.raised \/ ~dt.aware \/ dt.t < now_

\* (mutant) no record ever counts as expired
ExpiredSkip_Never(e, now_) == FALSE

\* The expiry test of both scripts: "if expires: try: expires_dt =
\* fromisoformat(expires); if expires_dt < now: continue; except: pass".
\* now is aware, so comparing a naive datetime raises TypeError, swallowed.
ExpiredSkip(e, now_) ==
    /\ e.kind # "absent"
    /\ LET dt == fromisoformat(e)
       IN /\ ~dt.raised
          /\ dt.aware
          /\ dt.t < now_

\* (mutant) only the pattern is read as a glob
CommitMatch_OneWay(path_value, pattern) == fnmatch(path_value, pattern)

\* pre-commit: fnmatch(path_value, pattern) or fnmatch(pattern, path_value)
CommitMatch(path_value, pattern) ==
    fnmatch(path_value, pattern) \/ fnmatch(pattern, path_value)

\* pre-push: both sides with backslashes turned into slashes and leading
\* slashes removed; fnmatchcase either way, or equality
PushNormalize(s) == LStripSet(ReplaceBackslash(s), {"/"})

PushMatch(path_value, pattern) ==
    LET a == PushNormalize(path_value)
        b == PushNormalize(pattern)
    IN fnmatchcase(a, b) \/ fnmatchcase(b, a) \/ a = b

RECURSIVE CommitTriples(_, _, _)
\* pre-commit's inner loop "for path_value in paths": one triple per match
CommitTriples(paths_, holder, pattern) ==
    IF paths_ = <<>> THEN <<>>
    ELSE (IF CommitMatch(Head(paths_), pattern)
          THEN << <<Head(paths_), holder, pattern>> >>
          ELSE <<>>) \o CommitTriples(Tail(paths_), holder, pattern)

RECURSIVE PushTriples(_, _, _)
\* pre-push's inner loop "for path_value in changed"
PushTriples(changed_, holder, pattern) ==
    IF changed_ = <<>> THEN <<>>
    ELSE (IF PushMatch(Head(changed_), pattern)
          THEN << <<Head(changed_), holder, pattern>> >>
          ELSE <<>>) \o PushTriples(Tail(changed_), holder, pattern)

\* A pass of the record loop that ends in an uncaught exception: the record
\* passes the tests before the pattern and its path_pattern is a number (not
\* zero). pre-commit: fnmatch(path_value, 7) raises TypeError at the first
\* path; pre-push: (7 or "").strip() raises AttributeError.
CommitRaises(rec, agentName, now_, paths_) ==
    /\ Get(rec.agent, None) # agentName
    /\ ~ExpiredSkip(rec.expires_ts, now_)
    /\ rec.pattern_json # "string"
    /\ paths_ # <<>>

PushRaises(rec, agentName, now_) ==
    /\ Get(rec.agent, None) # agentName
    /\ Get(rec.exclusive, TRUE)
    /\ ~ExpiredSkip(rec.expires_ts, now_)
    /\ rec.pattern_json # "string"

\* One pass of pre-commit's record loop: the triples the record adds
CommitRecord(rec, agentName, now_, paths_) ==
    IF Get(rec.agent, None) = agentName THEN <<>>
    ELSE IF ExpiredSkip(rec.expires_ts, now_) THEN <<>>
    ELSE LET pattern == Get(rec.path_pattern, <<>>)
         IN IF pattern = <<>> THEN <<>>
            ELSE CommitTriples(paths_, Get(rec.agent, None), pattern)

\* (mutant) pre-push's record loop without the exclusive filter
PushRecord_NoExclusive(rec, agentName, now_, changed_) ==
    IF Get(rec.agent, None) = agentName THEN <<>>
    ELSE IF ExpiredSkip(rec.expires_ts, now_) THEN <<>>
    ELSE LET pattern == Strip(Get(rec.path_pattern, <<>>))
         IN IF pattern = <<>> THEN <<>>
            ELSE PushTriples(changed_, Get(rec.agent, None), pattern)

\* One pass of pre-push's record loop: as pre-commit's, with the exclusive
\* filter and the pattern stripped of surrounding whitespace
PushRecord(rec, agentName, now_, changed_) ==
    IF Get(rec.agent, None) = agentName THEN <<>>
    ELSE IF ~Get(rec.exclusive, TRUE) THEN <<>>
    ELSE IF ExpiredSkip(rec.expires_ts, now_) THEN <<>>
    ELSE LET pattern == Strip(Get(rec.path_pattern, <<>>))
         IN IF pattern = <<>> THEN <<>>
            ELSE PushTriples(changed_, Get(rec.agent, None), pattern)

(* ------------------------------------------------- repository inspector *)
\* Commit ids and the all-zero id of an absent remote side
Sha1 == <<"c", "1">>
Sha2 == <<"c", "2">>
Sha3 == <<"c", "3">>
ZeroSha == <<"0", "0">>
Commits == {Sha1, Sha2, Sha3}

\* Sha1 is the first commit and the parent of Sha2 and of Sha3, which are on
\* two branches; what a commit reaches, newest first (--topo-order)
Ancestors(c) == IF c = Sha1 THEN <<Sha1>> ELSE <<c, Sha1>>
\* The first commit of the history has no parent
IsRoot(c) == Len(Ancestors(c)) = 1

\* Status tokens of git diff --name-status
St_M == <<"M">>
St_A == <<"A">>
St_R == <<"R", "1", "0", "0">>

\* A staged change: its status and path; a rename has an old and a new path
Entry(st, old, new) == [status |-> st, old |-> old, new |-> new]
IsRename(e) == Head(e.status) = "R"

RECURSIVE NameOnlyTokens(_)
\* stdout of "git diff --cached --name-only -z --diff-filter=ACMRDTU", split
\* at NUL: one path per entry (a rename's new path), then the empty piece
\* after the last NUL
NameOnlyTokens(index) ==
    IF index = <<>> THEN << <<>> >>
    ELSE <<Head(index).new>> \o NameOnlyTokens(Tail(index))

RECURSIVE NameStatusTokens(_)
\* stdout of "git diff --cached --name-status -M -z", split at NUL: per
\* entry the status and its path, for a rename the status, old and new path
NameStatusTokens(index) ==
    IF index = <<>> THEN << <<>> >>
    ELSE (IF IsRename(Head(index))
          THEN <<Head(index).status, Head(index).old, Head(index).new>>
          ELSE <<Head(index).status, Head(index).new>>)
         \o NameStatusTokens(Tail(index))

\* [x for x in s if x]
NonEmpty(tokens) == SelectSeq(tokens, LAMBDA x : x # <<>>)

\* stdout.decode("utf-8","ignore").split("\x00"): the NUL-separated pieces,
\* each decoded
DecodeSplit(tokens) == [i \in 1..Len(tokens) |-> decode(tokens[i])]

\* str.startswith("R")
StartsWithR(status) == status # <<>> /\ Head(status) = "R"

\* One pass of the "while i < len(parts)" loop of the pre-commit script, for
\* i < len(parts): the value of i after the pass, and the paths the pass
\* appends. i counts from 0 as in the source.
NextIndex(parts, i) ==
    LET status == parts[i + 1]
        j == i + 1
    IN IF StartsWithR(status) /\ j + 1 < Len(parts) THEN j + 2
       ELSE IF j < Len(parts) THEN j + 1
       ELSE j

Appended(parts, i) ==
    LET status == parts[i + 1]
        j == i + 1
    IN IF StartsWithR(status) /\ j + 1 < Len(parts)
       THEN <<parts[j + 1], parts[j + 2]>>
       ELSE IF j < Len(parts) THEN <<parts[j + 1]>>
       ELSE <<>>

RECURSIVE ParseNameStatus(_, _, _)
\* The whole loop; acc is the paths list it appends to
ParseNameStatus(parts, i, acc) ==
    IF ~(i < Len(parts)) THEN acc
    ELSE ParseNameStatus(parts, NextIndex(parts, i),
                         acc \o Appended(parts, i))

\* remote = (sys.argv[1] if len(sys.argv) > 1 else "origin"); args are the
\* arguments after the script's own name
RemoteOf(args) == IF Len(args) > 0 THEN args[1] ELSE "origin"

\* The commits the refs under refs/remotes/<remote>/ reach (none when there
\* are no such refs)
Reached(remotes, remote) ==
    IF remote \in DOMAIN remotes THEN remotes[remote] ELSE {}

\* git rev-list --topo-order <local_sha> --not --remotes=<remote>: the commits
\* reachable from local_sha that the remote's refs do not reach
RevList(local_sha, reached) ==
    SelectSeq(Ancestors(local_sha), LAMBDA c : c \notin reached)

RECURSIVE ChangesOf(_, _)
\* the paths changed by a list of commits, in order
ChangesOf(cs, changes) ==
    IF cs = <<>> THEN <<>>
    ELSE changes[Head(cs)] \o ChangesOf(Tail(cs), changes)

\* rng of the fallback: local_sha alone when the remote side is empty or all
\* zeros, else "remote_sha..local_sha"
FallbackRange(local_sha, remote_sha) ==
    IF remote_sha = <<>> \/ {remote_sha[i] : i \in 1..Len(remote_sha)} = {"0"}
    THEN <<local_sha>>
    ELSE <<remote_sha, local_sha>>

\* The first byte of a character, which is what git sorts paths by
ByteOf(c) ==
    CASE c = "/" -> 47 [] c = "?" -> 63 [] c = "a" -> 97 [] c = "b" -> 98
      [] c = "s" -> 115 [] c = Byte80 -> 128 [] c = Ch_e -> 195

RECURSIVE PathLess(_, _)
\* p sorts before q, byte by byte
PathLess(p, q) ==
    IF q = <<>> THEN FALSE
    ELSE IF p = <<>> THEN TRUE
    ELSE IF Head(p) = Head(q) THEN PathLess(Tail(p), Tail(q))
    ELSE ByteOf(Head(p)) < ByteOf(Head(q))

\* A set of paths as git lists it: sorted
SortedPaths(S) ==
    CHOOSE q \in [1..Cardinality(S) -> S] :
        \A i, j \in 1..Cardinality(S) : i < j => PathLess(q[i], q[j])

\* The paths in which the trees of commits x and y differ: those changed by
\* the commits that one of them has and the other has not
Differing(x, y, changes) ==
    LET ax == {Ancestors(x)[i] : i \in 1..Len(Ancestors(x))}
        ay == {Ancestors(y)[i] : i \in 1..Len(Ancestors(y))}
    IN UNION {{changes[c][i] : i \in 1..Len(changes[c])} :
                 c \in (ax \ ay) \cup (ay \ ax)}

\* git diff --name-only rng, one line per path: "a..b" compares the trees of
\* a and b, a single commit is compared with the working tree (here a clean
\* checkout of commit worktree)
DiffNameOnly(rng, changes, worktree) ==
    SortedPaths(IF Len(rng) = 1
                THEN Differing(rng[1], worktree, changes)
                ELSE Differing(rng[1], rng[2], changes))

(* ------------------------------------------------------------- state *)
VARIABLES
    script,      \* which generated script runs: "pre-commit" or "pre-push"
    env,         \* the process environment (os.environ)
    dirExists,   \* whether FILE_RESERVATIONS_DIR exists
    files,       \* the *.json files of the directory, in glob order
    git,         \* the repository: index, remote, per-commit changes, failures
    stdin,       \* pre-push: the ref-update lines, each split into fields
    argv,        \* pre-push: the arguments git passes (remote name, URL)
    pc,          \* position in the script
    MODE, ADVISORY, AGENT_NAME, now,
    paths,       \* pre-commit: candidate paths
    tuples, commits, changed,   \* pre-push: the three lists
    cursor,      \* position of the running for-loop
    conflicts,
    stderr,      \* the diagnostic messages written, by kind
    listing,     \* the conflict lines written to stderr
    exitCode,    \* -1 while running, then the exit status
    did,         \* what the run has touched: "dir", "loader", "git", "stdin"
    calls        \* the git commands run, in order

\* The installers (install_guard, install_prepush_guard) and what they act on
VARIABLES
    inst,        \* the install requests: each one's arguments, locals, position
    hookFiles,   \* the hook files on disk: path -> content and mode
    hookDirs,    \* the hook directories that exist
    lock,        \* per project, the request holding its archive write lock
    fslog,       \* the writes and chmods of hook files, in the order they happen
    returned     \* the requests that have returned, in order

installer == <<inst, hookFiles, hookDirs, lock, fslog, returned>>
world == <<script, env, dirExists, files, git, stdin, argv, installer>>
config == <<MODE, ADVISORY, AGENT_NAME>>
lists == <<paths, tuples, commits, changed>>
vars == <<script, env, dirExists, files, git, stdin, argv, pc, MODE,
          ADVISORY, AGENT_NAME, now, paths, tuples, commits, changed, cursor,
          conflicts, stderr, listing, exitCode, did, calls, installer>>

Running == -1

\* sys.exit(code)
Exit(code) ==
    /\ pc' = "done"
    /\ exitCode' = code

(* ------------------------------------------------------ common prefix *)
\* if WORKTREES_ENABLED is not truthy: sys.exit(0)
Gate ==
    /\ pc = "gate"
    /\ IF ~FlagOn(env.WORKTREES_ENABLED)
       THEN Exit(0)
       ELSE pc' = "mode" /\ exitCode' = exitCode
    /\ UNCHANGED <<world, config, now, lists, cursor, conflicts, stderr,
                   listing, did, calls>>

\* MODE = ...; ADVISORY = MODE in {"warn","advisory","adv"}
ReadMode ==
    /\ pc = "mode"
    /\ MODE' = ModeOf(env.AGENT_MAIL_GUARD_MODE)
    /\ ADVISORY' = IsAdvisory(ModeOf(env.AGENT_MAIL_GUARD_MODE))
    /\ pc' = "bypass"
    /\ UNCHANGED <<world, AGENT_NAME, now, lists, cursor, conflicts, stderr,
                   listing, exitCode, did, calls>>

\* (mutant) the bypass variable is never honoured
Bypass_Ignored ==
    /\ pc = "bypass"
    /\ pc' = "identity"
    /\ UNCHANGED <<world, config, now, lists, cursor, conflicts, stderr,
                   listing, exitCode, did, calls>>

\* if AGENT_MAIL_BYPASS is truthy: note it on stderr, sys.exit(0)
Bypass ==
    /\ pc = "bypass"
    /\ IF FlagOn(env.AGENT_MAIL_BYPASS)
       THEN /\ stderr' = Append(stderr, "bypass")
            /\ Exit(0)
       ELSE /\ pc' = "identity"
            /\ UNCHANGED <<stderr, exitCode>>
    /\ UNCHANGED <<world, config, now, lists, cursor, conflicts, listing, did, calls>>

\* (mutant) only an unset AGENT_NAME counts as missing, an empty one passes
Identity_EmptyOk ==
    /\ pc = "identity"
    /\ AGENT_NAME' = env.AGENT_NAME
    /\ IF env.AGENT_NAME = Unset
       THEN /\ stderr' = Append(stderr, "identity")
            /\ Exit(1)
       ELSE /\ pc' = "direxists"
            /\ UNCHANGED <<stderr, exitCode>>
    /\ UNCHANGED <<world, MODE, ADVISORY, now, lists, cursor, conflicts,
                   listing, did, calls>>

\* AGENT_NAME = os.environ.get("AGENT_NAME"); if not AGENT_NAME: exit 1
Identity ==
    /\ pc = "identity"
    /\ AGENT_NAME' = env.AGENT_NAME
    /\ IF Get(env.AGENT_NAME, "") = ""
       THEN /\ stderr' = Append(stderr, "identity")
            /\ Exit(1)
       ELSE /\ pc' = "direxists"
            /\ UNCHANGED <<stderr, exitCode>>
    /\ UNCHANGED <<world, MODE, ADVISORY, now, lists, cursor, conflicts,
                   listing, did, calls>>

\* (mutant) the script goes on although the directory is missing
DirCheck_Skipped ==
    /\ pc = "direxists"
    /\ did' = did \cup {"dir"}
    /\ pc' = IF script = "pre-commit" THEN "now" ELSE "stdin"
    /\ UNCHANGED <<world, config, now, lists, cursor, conflicts, stderr,
                   listing, exitCode, calls>>

\* if not FILE_RESERVATIONS_DIR.exists(): sys.exit(0)
DirCheck ==
    /\ pc = "direxists"
    /\ did' = did \cup {"dir"}
    /\ IF ~dirExists
       THEN Exit(0)
       ELSE /\ pc' = IF script = "pre-commit" THEN "now" ELSE "stdin"
            /\ exitCode' = exitCode
    /\ UNCHANGED <<world, config, now, lists, cursor, conflicts, stderr,
                   listing, calls>>

\* now = datetime.now(timezone.utc): before the path collection in
\* pre-commit, after it in pre-push
TakeNow ==
    /\ pc = "now"
    /\ now' \in Clock
    /\ pc' = IF script = "pre-commit" THEN "name-only" ELSE "load"
    /\ UNCHANGED <<world, config, lists, cursor, conflicts, stderr, listing,
                   exitCode, did, calls>>

(* --------------------------------------------- pre-commit: staged paths *)
\* First subprocess of the try block: the name-only listing. A failure
\* (check=True raises) leaves the try block with paths as it is.
NameOnly ==
    /\ pc = "name-only"
    /\ did' = did \cup {"git"}
    /\ calls' = Append(calls, <<"name-only">>)
    /\ IF "name-only" \in git.fails
       THEN /\ pc' = "paths-check"
            /\ paths' = paths
       ELSE /\ pc' = "name-status"
            /\ paths' = paths
                          \o NonEmpty(DecodeSplit(NameOnlyTokens(git.index)))
    /\ UNCHANGED <<world, config, now, tuples, commits, changed, cursor,
                   conflicts, stderr, listing, exitCode>>

\* Second subprocess of the try block: the name-status listing and the loop
\* that appends a rename's old and new path and every other entry's path
NameStatus ==
    /\ pc = "name-status"
    /\ did' = did \cup {"git"}
    /\ calls' = Append(calls, <<"name-status">>)
    /\ pc' = "paths-check"
    /\ IF "name-status" \in git.fails
       THEN paths' = paths
       ELSE paths' = ParseNameStatus(
                         NonEmpty(DecodeSplit(NameStatusTokens(git.index))),
                         0, paths)
    /\ UNCHANGED <<world, config, now, tuples, commits, changed, cursor,
                   conflicts, stderr, listing, exitCode>>

\* if not paths: sys.exit(0)
PathsCheck ==
    /\ pc = "paths-check"
    /\ IF paths = <<>>
       THEN Exit(0)
       ELSE pc' = "load" /\ exitCode' = exitCode
    /\ UNCHANGED <<world, config, now, lists, cursor, conflicts, stderr,
                   listing, did, calls>>

(* ---------------------------------------------- pre-push: changed paths *)
\* The script is modelled as the lines of render_prepush_script list it. (In
\* the source the list element at guard.py:209 carries a stray leading "+", a
\* unary plus on a string: render_prepush_script raises TypeError before it
\* returns. That concerns the installer, not what the listed script does.)
\* tuples: the stdin lines with at least four fields, cut to four
ReadStdin ==
    /\ pc = "stdin"
    /\ did' = did \cup {"stdin"}
    /\ LET tup == [i \in 1..Len(SelectSeq(stdin, LAMBDA l : Len(l) >= 4)) |->
                     SubSeq(SelectSeq(stdin, LAMBDA l : Len(l) >= 4)[i], 1, 4)]
       IN /\ tuples' = tup
          /\ pc' = IF tup = <<>> THEN "now" ELSE "rev-list"
    /\ cursor' = 1
    /\ UNCHANGED <<world, config, now, paths, commits, changed, conflicts,
                   stderr, listing, exitCode, calls>>

\* git rev-list fails (check=True raises): the repository cannot be walked,
\* or local_sha names no commit (the all-zero id of a deleted ref)
RevListFails(local_sha, g) ==
    "rev-list" \in g.fails \/ local_sha \notin Commits

\* git diff fails: as above, for either end of the range
DiffFails(rng, g) ==
    "diff" \in g.fails \/ \E i \in 1..Len(rng) : rng[i] \notin Commits

\* What one pass of "for ... in tuples" appends to commits: the rev-list
\* output, or, when rev-list fails, the lines of the fallback diff (nothing
\* when that fails too)
TupleCommits(t, g, remote) ==
    LET local_sha == t[2]
        remote_sha == t[4]
        rng == FallbackRange(local_sha, remote_sha)
    IN IF ~RevListFails(local_sha, g)
       THEN RevList(local_sha, Reached(g.remotes, remote))
       ELSE IF ~DiffFails(rng, g)
            THEN DiffNameOnly(rng, g.changes, g.worktree)
            ELSE <<>>

\* The git commands one pass of "for ... in tuples" runs: rev-list, and the
\* fallback diff when rev-list fails
TupleCalls(t, g, remote) ==
    LET local_sha == t[2]
        rng == FallbackRange(local_sha, t[4])
    IN << <<"rev-list", local_sha, remote>> >>
       \o (IF RevListFails(local_sha, g) THEN << <<"diff", rng>> >> ELSE <<>>)

RevListStep ==
    /\ pc = "rev-list"
    /\ cursor <= Len(tuples)
    /\ did' = did \cup {"git"}
    /\ commits' = commits \o TupleCommits(tuples[cursor], git, RemoteOf(argv))
    /\ calls' = calls \o TupleCalls(tuples[cursor], git, RemoteOf(argv))
    /\ IF cursor < Len(tuples)
       THEN cursor' = cursor + 1 /\ pc' = pc
       ELSE /\ cursor' = 1
            /\ pc' = IF commits' = <<>> THEN "now" ELSE "diff-tree"
    /\ UNCHANGED <<world, config, now, paths, tuples, changed, conflicts,
                   stderr, listing, exitCode>>

\* What one pass of "for c in commits" adds to changed: the paths of the
\* single-commit diff; nothing when git diff-tree fails (c names no commit,
\* or its objects cannot be read)
DiffTreeFails(c, g) == c \notin Commits \/ c \in g.unreadable

\* git diff-tree <c> compares a commit with its parent; without --root it
\* prints nothing for a commit that has none
DiffTree(c, g) == IF IsRoot(c) THEN <<>> ELSE g.changes[c]

CommitPaths(c, g) ==
    IF ~DiffTreeFails(c, g)
    THEN NonEmpty(DecodeSplit(DiffTree(c, g) \o << <<>> >>))
    ELSE <<>>

DiffTreeStep ==
    /\ pc = "diff-tree"
    /\ cursor <= Len(commits)
    /\ did' = did \cup {"git"}
    /\ changed' = changed \o CommitPaths(commits[cursor], git)
    /\ calls' = calls \o << <<"diff-tree", commits[cursor]>> >>
    /\ IF cursor < Len(commits)
       THEN cursor' = cursor + 1 /\ pc' = pc
       ELSE cursor' = 1 /\ pc' = "now"
    /\ UNCHANGED <<world, config, now, paths, tuples, commits, conflicts,
                   stderr, listing, exitCode>>

(* ------------------------------------------------ loader and evaluator *)
\* "for file_reservation in load_file_reservations()": the generator starts
\* and FILE_RESERVATIONS_DIR.glob("*.json") lists the directory
Load ==
    /\ pc = "load"
    /\ did' = did \cup {"dir", "loader"}
    /\ cursor' = 1
    /\ pc' = IF files = <<>> THEN "report" ELSE "eval"
    /\ UNCHANGED <<world, config, now, lists, conflicts, stderr, listing,
                   exitCode, calls>>

\* (mutant) the record loop without the self-ownership test
RecordConflicts_NoSelf(rec) ==
    IF script = "pre-commit"
    THEN CommitRecord(rec, "", now, paths)
    ELSE PushRecord(rec, "", now, changed)

\* (mutant) a record adds no triple for a path that an earlier record has
\* already put on the list
RecordConflicts_Merged(rec) ==
    LET found == IF script = "pre-commit"
                 THEN CommitRecord(rec, Get(AGENT_NAME, ""), now, paths)
                 ELSE PushRecord(rec, Get(AGENT_NAME, ""), now, changed)
    IN SelectSeq(found, LAMBDA tr :
                            \A k \in 1..Len(conflicts) : conflicts[k][1] # tr[1])

\* The triples one record adds, by script
RecordConflicts(rec) ==
    IF script = "pre-commit"
    THEN CommitRecord(rec, Get(AGENT_NAME, ""), now, paths)
    ELSE PushRecord(rec, Get(AGENT_NAME, ""), now, changed)

\* The record loop raises on file f: JSON that is no object has no .get
\* (AttributeError), and a path_pattern that is no string raises where it is
\* first used as one
RecordRaises(f) ==
    \/ f.json = "array"
    \/ /\ f.json = "object"
       /\ IF script = "pre-commit"
          THEN CommitRaises(f, Get(AGENT_NAME, ""), now, paths)
          ELSE PushRaises(f, Get(AGENT_NAME, ""), now)

\* (mutant) a file that cannot be read or parsed is tried again
EvalRecord_Retry ==
    /\ pc = "eval"
    /\ cursor <= Len(files)
    /\ LET f == files[cursor]
       IN IF RecordRaises(f)
          THEN /\ stderr' = Append(stderr, "traceback")
               /\ Exit(1)
               /\ UNCHANGED <<cursor, conflicts>>
          ELSE /\ conflicts' = IF f.json = "invalid" THEN conflicts
                               ELSE conflicts \o RecordConflicts(f)
               /\ IF f.json = "invalid"
                  THEN cursor' = cursor /\ pc' = pc
                  ELSE IF cursor < Len(files)
                       THEN cursor' = cursor + 1 /\ pc' = pc
                       ELSE cursor' = cursor /\ pc' = "report"
               /\ UNCHANGED <<stderr, exitCode>>
    /\ UNCHANGED <<world, config, now, lists, listing, did, calls>>

\* One file of the directory: read and parsed by the loader (a failure skips
\* the file), then one pass of the record loop. An exception of the record
\* loop is not caught and ends the script with a traceback and status 1.
EvalRecord ==
    /\ pc = "eval"
    /\ cursor <= Len(files)
    /\ LET f == files[cursor]
       IN IF RecordRaises(f)
          THEN /\ stderr' = Append(stderr, "traceback")
               /\ Exit(1)
               /\ UNCHANGED <<cursor, conflicts>>
          ELSE /\ conflicts' = IF f.json = "invalid" THEN conflicts
                               ELSE conflicts \o RecordConflicts(f)
               /\ IF cursor < Len(files)
                  THEN cursor' = cursor + 1 /\ pc' = pc
                  ELSE cursor' = cursor /\ pc' = "report"
               /\ UNCHANGED <<stderr, exitCode>>
    /\ UNCHANGED <<world, config, now, lists, listing, did, calls>>

\* if conflicts: list them on stderr, exit 0 when ADVISORY else 1;
\* otherwise sys.exit(0)
Report ==
    /\ pc = "report"
    /\ IF conflicts # <<>>
       THEN /\ listing' = conflicts
            /\ stderr' = stderr \o <<"conflicts",
                                     IF ADVISORY THEN "advisory" ELSE "resolve">>
            /\ Exit(IF ADVISORY THEN 0 ELSE 1)
       ELSE /\ Exit(0)
            /\ UNCHANGED <<listing, stderr>>
    /\ UNCHANGED <<world, config, now, lists, cursor, conflicts, did, calls>>

Next ==
    \/ Gate \/ ReadMode \/ Bypass \/ Identity \/ DirCheck \/ TakeNow
    \/ NameOnly \/ NameStatus \/ PathsCheck
    \/ ReadStdin \/ RevListStep \/ DiffTreeStep
    \/ Load \/ EvalRecord \/ Report

(* ------------------------------------------------------ initial states *)
SeqsUpTo(S, n) == UNION {[1..k -> S] : k \in 0..n}
Range(q) == {q[i] : i \in 1..Len(q)}

\* Staged changes; git lists them sorted by path (a rename by its new path),
\* and an index holds each path once
StagedEntries ==
    {Entry(St_M, P_sa, P_sa), Entry(St_A, P_sq, P_sq), Entry(St_R, P_sa, P_sb),
     Entry(St_R, P_sb, P_sa), Entry(St_A, P_raw, P_raw),
     Entry(St_R, P_ea, P_eb)}
IndexUniverse ==
    {ix \in SeqsUpTo(StagedEntries, MaxStaged) :
        \A i, j \in 1..Len(ix) :
            /\ i < j => PathLess(ix[i].new, ix[j].new)
            /\ i # j => ix[i].old # ix[j].new}

Ref == <<"r">>
\* Ref-update lines: a new branch, an update, a line cut short, a deletion
\* (git gives the all-zero id as the local one)
StdinLines ==
    {<<Ref, Sha2, Ref, ZeroSha>>, <<Ref, Sha3, Ref, Sha1>>, <<Ref, Sha2>>,
     <<Ref, ZeroSha, Ref, Sha1>>}
\* What each commit changes against its parent (the first commit: what it
\* adds), in the order git lists paths
Changes ==
    [c \in Commits |-> IF c = Sha2 THEN <<P_sq, P_sa>> ELSE <<P_sb>>]

\* The commits the refs of each remote reach
Remotes(origin, up) == [origin |-> origin, up |-> up]
NoRemotes == Remotes({}, {})

Git(index, remotes, fails, unreadable) ==
    [index |-> index, remotes |-> remotes, changes |-> Changes,
     worktree |-> Sha2, fails |-> fails, unreadable |-> unreadable]

\* Repositories as the pre-commit script meets them
CommitGits ==
    {Git(ix, NoRemotes, f, {}) :
        ix \in IndexUniverse, f \in {{}, {"name-only"}, {"name-status"}}}
\* ... and as the pre-push script meets them
PushGits ==
    {g \in {[Git(<<>>, r, f[1], f[2]) EXCEPT !.worktree = w] :
               r \in {NoRemotes, Remotes({Sha1}, {}), Remotes({}, {Sha1})},
               f \in {<<{}, {}>>, <<{"rev-list"}, {}>>,
                      <<{"rev-list", "diff"}, {}>>, <<{}, {Sha2}>>},
               w \in {Sha1, Sha2}} :
        g.worktree = Sha2 \/ g.fails = {"rev-list"}}
PushStdins == SeqsUpTo(StdinLines, MaxLines)
\* git passes the remote's name (and its URL); run by hand there is none
PushArgs == {<<>>, <<"up">>}

\* A few repositories in which paths are found
SomeCommitGits ==
    {Git(<<e>>, NoRemotes, {}, {}) : e \in StagedEntries}
SomePushGits == {Git(<<>>, r, {}, {}) : r \in {NoRemotes, Remotes({Sha1}, {})}}
SomeStdins == {<< <<Ref, Sha2, Ref, Sha1>>, <<Ref, Sha3, Ref, Sha1>> >>}

\* Directory contents: every single file, and short directories of a sample
Conflicting == Rec(B_, Some(TRUE), Future, P_sa)
DirSample ==
    {Conflicting,
     Rec(A_, Unset, [kind |-> "absent", t |-> 0], Pat_star),
     Rec(B_, Some(FALSE), Future, Pat_star),
     Rec(B_, Unset, [kind |-> "aware", t |-> 0], P_sa),
     Rec(C_, Some(TRUE), Future, Pat_star),
     NumberPattern(B_, Some(FALSE), [kind |-> "absent", t |-> 0]),
     CorruptFile, ArrayFile}
Directories ==
    {<<f>> : f \in RecordFiles} \cup SeqsUpTo(DirSample, MaxRecords)
SomeDirectories == {<<>>, <<Conflicting>>}

EnabledEnvs ==
    [WORKTREES_ENABLED : {Some(V_1)},
     AGENT_MAIL_GUARD_MODE : {Unset, Some(V_warn)},
     AGENT_MAIL_BYPASS : {Unset},
     AGENT_NAME : {Some(A_)}]
AllEnvs ==
    [WORKTREES_ENABLED : FlagValues,
     AGENT_MAIL_GUARD_MODE : ModeValues,
     AGENT_MAIL_BYPASS : BypassValues,
     AGENT_NAME : NameValues]

\* The state of a script at its first line
Start ==
    /\ pc = "gate"
    /\ MODE = <<>> /\ ADVISORY = FALSE /\ AGENT_NAME = Unset /\ now = 0
    /\ paths = <<>> /\ tuples = <<>> /\ commits = <<>> /\ changed = <<>>
    /\ cursor = 1 /\ conflicts = <<>> /\ stderr = <<>> /\ listing = <<>>
    /\ exitCode = Running /\ did = {} /\ calls = <<>>

\* Every environment, with a small world
InitEnv ==
    /\ script \in {"pre-commit", "pre-push"}
    /\ env \in AllEnvs
    /\ dirExists \in BOOLEAN
    /\ files \in (IF dirExists THEN SomeDirectories ELSE {<<>>})
    /\ git \in (IF script = "pre-commit"
                THEN {Git(<<Entry(St_M, P_sa, P_sa)>>, NoRemotes, {}, {})}
                ELSE {Git(<<>>, NoRemotes, {}, {})})
    /\ stdin \in (IF script = "pre-commit" THEN {<<>>}
                  ELSE {<< <<Ref, Sha2, Ref, ZeroSha>> >>})
    /\ argv = <<>>

\* The enabled script, every directory, a few repositories
InitDir ==
    /\ script \in {"pre-commit", "pre-push"}
    /\ env \in EnabledEnvs
    /\ dirExists = TRUE
    /\ files \in Directories
    /\ git \in (IF script = "pre-commit" THEN SomeCommitGits ELSE SomePushGits)
    /\ stdin \in (IF script = "pre-commit" THEN {<<>>} ELSE SomeStdins)
    /\ argv = <<>>

\* The enabled script, every repository, a few directories
InitGit ==
    /\ script \in {"pre-commit", "pre-push"}
    /\ env \in EnabledEnvs
    /\ dirExists = TRUE
    /\ files \in SomeDirectories
                 \cup {<<Rec(B_, Unset, Future, p)>> : p \in {Pat_star, P_ea}}
    /\ git \in (IF script = "pre-commit" THEN CommitGits ELSE PushGits)
    /\ stdin \in (IF script = "pre-commit" THEN {<<>>} ELSE PushStdins)
    /\ argv \in (IF script = "pre-commit" THEN {<<>>} ELSE PushArgs)

\* No install request is in flight while a script runs
NoInstall ==
    /\ inst = <<>> /\ hookFiles = <<>> /\ hookDirs = {}
    /\ lock = <<>> /\ fslog = <<>> /\ returned = <<>>

Init == Start /\ NoInstall /\ (InitEnv \/ InitDir \/ InitGit)

Spec == Init /\ [][Next]_vars


(* --------------------------------------------------------- installers *)
\* most install requests in flight
MaxInstalls == 2

RECURSIVE SplitSlash(_, _, _)
\* s.split("/"): cur is the piece being read, acc the pieces before it
SplitSlash(s, cur, acc) ==
    IF s = <<>> THEN Append(acc, cur)
    ELSE IF Head(s) = "/" THEN SplitSlash(Tail(s), <<>>, Append(acc, cur))
    ELSE SplitSlash(Tail(s), Append(cur, Head(s)), acc)

\* pathlib.Path(s) on POSIX: absolute when s starts with a slash; empty and
\* "." components are dropped
Path(s) ==
    [abs |-> s # <<>> /\ Head(s) = "/",
     parts |-> SelectSeq(SplitSlash(s, <<>>, <<>>),
                         LAMBDA c : c # <<>> /\ c # <<".">>)]

\* p / q: an absolute right-hand side replaces the left-hand side
Div(p, q) ==
    IF q.abs THEN q ELSE [abs |-> p.abs, parts |-> p.parts \o q.parts]

RECURSIVE JoinSlash(_)
JoinSlash(parts) ==
    IF parts = <<>> THEN <<>>
    ELSE IF Len(parts) = 1 THEN parts[1]
    ELSE parts[1] \o <<"/">> \o JoinSlash(Tail(parts))

\* str(path)
str(p) ==
    IF p.parts = <<>> THEN (IF p.abs THEN <<"/">> ELSE <<".">>)
    ELSE (IF p.abs THEN <<"/">> ELSE <<>>) \o JoinSlash(p.parts)

\* _git(cwd, *args): the stripped stdout, or None when git fails; out is the
\* raw stdout of the call, Unset when the call fails
git_(out) == IF out = Unset THEN Unset ELSE Some(Strip(out[1]))

\* "if value:" on what _git returns: neither None nor the empty string
Given(o) == o # Unset /\ o[1] # <<>>

\* s[1:3]
Slice13(s) == SubSeq(s, 2, IF Len(s) < 3 THEN Len(s) ELSE 3)

\* The test of _resolve_hooks_dir for "hooks_path is absolute": a leading
\* slash or a drive prefix
LooksAbsolute(hooks_path) ==
    \/ Head(hooks_path) = "/"
    \/ Len(hooks_path) > 1 /\ Slice13(hooks_path) = <<":", "\\">>
    \/ Slice13(hooks_path) = <<":", "/">>

T_git == <<".", "g", "i", "t">>
T_hooks == <<"h", "o", "o", "k", "s">>

\* (mutant) git-dir/hooks is preferred to core.hooksPath
resolve_hooks_dir_GitDirFirst(c) ==
    LET git_dir == git_(c.gitdir)
        hooks_path == git_(c.hooksPath)
    IN IF Given(git_dir)
       THEN LET g == Path(git_dir[1])
            IN Div(IF ~g.abs THEN Div(c.repo, g) ELSE g, Path(T_hooks))
       ELSE IF Given(hooks_path)
            THEN Div(c.repo, Path(hooks_path[1]))
            ELSE Div(Div(c.repo, Path(T_git)), Path(T_hooks))

\* _resolve_hooks_dir(repo) of both installers; c is the checkout: repo_path
\* and the raw output of the three git queries
resolve_hooks_dir(c) ==
    LET hooks_path == git_(c.hooksPath)
    IN IF Given(hooks_path)
       THEN IF LooksAbsolute(hooks_path[1])
            THEN Path(hooks_path[1])
            ELSE LET top == git_(c.toplevel)
                     root == IF Given(top) THEN top[1] ELSE str(c.repo)
                 IN Div(Path(root), Path(hooks_path[1]))
       ELSE LET git_dir == git_(c.gitdir)
            IN IF Given(git_dir)
               THEN LET g == Path(git_dir[1])
                    IN Div(IF ~g.abs THEN Div(c.repo, g) ELSE g,
                           Path(T_hooks))
               ELSE Div(Div(c.repo, Path(T_git)), Path(T_hooks))

\* render_precommit_script(archive): the text depends on archive.root only
render_precommit_script(archive) == [hook |-> "pre-commit", root |-> archive]

\* render_prepush_script(archive) raises TypeError while it builds its list
\* of lines: the element at guard.py:209 is written with a leading "+", a
\* unary plus applied to a string.
RenderRaises(kind) == kind = "pre-push"

\* File modes: what os.chmod sets, and what a file created by write_text has
Mode755 == 493
Mode644 == 420

NoPath == [abs |-> FALSE, parts |-> <<>>]
NoScript == [hook |-> "", root |-> ""]
Free == 0
Tasks == 1..MaxInstalls
\* a request in flight: started and neither returned nor raised
InFlight(t) == inst[t].pc \notin {"none", "start", "returned", "raised"}
Ended(t) == inst[t].pc \in {"returned", "raised"}

T_precommit == <<"p", "r", "e", "-", "c", "o", "m", "m", "i", "t">>
T_prepush == <<"p", "r", "e", "-", "p", "u", "s", "h">>
HookName(kind) == IF kind = "pre-commit" THEN T_precommit ELSE T_prepush

scriptVars == <<script, env, dirExists, files, git, stdin, argv, pc, config,
                now,
                lists, cursor, conflicts, stderr, listing, exitCode, did, calls>>

\* archive = await ensure_archive(settings, project_slug): the handle of the
\* project's archive. before records which requests had ended by then.
EnsureArchive(t) ==
    /\ inst[t].pc = "start"
    /\ inst[t].kind # "uninstall"
    /\ inst' = [inst EXCEPT ![t].pc = "resolve",
                            ![t].archive = inst[t].project_slug,
                            ![t].before = {u \in Tasks : Ended(u)}]
    /\ UNCHANGED <<scriptVars, hookFiles, hookDirs, lock, fslog, returned>>

\* hooks_dir = _resolve_hooks_dir(repo_path)
ResolveHooksDir(t) ==
    /\ inst[t].pc = "resolve"
    /\ inst' = [inst EXCEPT ![t].pc = "premkdir",
                            ![t].hooks_dir = resolve_hooks_dir(inst[t].checkout)]
    /\ UNCHANGED <<scriptVars, hookFiles, hookDirs, lock, fslog, returned>>

\* The mkdir calls before the lock (install_guard: when the directory is
\* missing; install_prepush_guard: always, exist_ok), then
\* hook_path = hooks_dir / "pre-commit" (resp. "pre-push")
PreMkdir(t) ==
    /\ inst[t].pc = "premkdir"
    /\ hookDirs' = hookDirs \cup {inst[t].hooks_dir}
    /\ inst' = [inst EXCEPT ![t].pc = "render",
                            ![t].hook_path =
                                Div(inst[t].hooks_dir,
                                    Path(HookName(inst[t].kind)))]
    /\ UNCHANGED <<scriptVars, hookFiles, lock, fslog, returned>>

\* script = render_precommit_script(archive), resp.
\* render_prepush_script(archive), whose exception ends install_prepush_guard
Render(t) ==
    /\ inst[t].pc = "render"
    /\ inst' = IF RenderRaises(inst[t].kind)
               THEN [inst EXCEPT ![t].pc = "raised"]
               ELSE [inst EXCEPT ![t].pc = "acquire",
                                 ![t].script =
                                     render_precommit_script(inst[t].archive)]
    /\ UNCHANGED <<scriptVars, hookFiles, hookDirs, lock, fslog, returned>>

\* archive_write_lock(archive): exclusive per project; free when nobody
\* holds it
LockFree(archive) == lock[archive] = Free

\* (mutant) the writes are done without taking the lock
Acquire_NoLock(t) ==
    /\ inst[t].pc = "acquire"
    /\ inst' = [inst EXCEPT ![t].pc = "mkdir"]
    /\ UNCHANGED <<scriptVars, hookFiles, hookDirs, lock, fslog, returned>>

\* async with archive_write_lock(archive): entered when the lock is free
Acquire(t) ==
    /\ inst[t].pc = "acquire"
    /\ LockFree(inst[t].archive)
    /\ lock' = [lock EXCEPT ![inst[t].archive] = t]
    /\ inst' = [inst EXCEPT ![t].pc = "mkdir"]
    /\ UNCHANGED <<scriptVars, hookFiles, hookDirs, fslog, returned>>

\* await asyncio.to_thread(hooks_dir.mkdir, parents=True, exist_ok=True)
LockedMkdir(t) ==
    /\ inst[t].pc = "mkdir"
    /\ hookDirs' = hookDirs \cup {inst[t].hooks_dir}
    /\ inst' = [inst EXCEPT ![t].pc = "write"]
    /\ UNCHANGED <<scriptVars, hookFiles, lock, fslog, returned>>

\* await asyncio.to_thread(hook_path.write_text, script, "utf-8"): the file
\* is created or truncated; an existing file keeps its mode
WriteText(t) ==
    /\ inst[t].pc = "write"
    /\ inst[t].hooks_dir \in hookDirs
    /\ LET path == inst[t].hook_path
       IN hookFiles' =
            (path :> [content |-> inst[t].script,
                      mode |-> IF path \in DOMAIN hookFiles
                               THEN hookFiles[path].mode ELSE Mode644])
            @@ hookFiles
    /\ fslog' = Append(fslog, [task |-> t, op |-> "write"])
    /\ inst' = [inst EXCEPT ![t].pc = "chmod"]
    /\ UNCHANGED <<scriptVars, hookDirs, lock, returned>>

\* await asyncio.to_thread(os.chmod, hook_path, 0o755); when the file has
\* been removed meanwhile os.chmod raises FileNotFoundError, which leaves the
\* async with block (the lock is released) and ends the install
Chmod(t) ==
    /\ inst[t].pc = "chmod"
    /\ IF inst[t].hook_path \in DOMAIN hookFiles
       THEN /\ hookFiles' =
                 [hookFiles EXCEPT ![inst[t].hook_path].mode = Mode755]
            /\ fslog' = Append(fslog, [task |-> t, op |-> "chmod"])
            /\ inst' = [inst EXCEPT ![t].pc = "release"]
            /\ lock' = lock
       ELSE /\ inst' = [inst EXCEPT ![t].pc = "raised"]
            /\ lock' = [lock EXCEPT ![inst[t].archive] = Free]
            /\ UNCHANGED <<hookFiles, fslog>>
    /\ UNCHANGED <<scriptVars, hookDirs, returned>>

\* The async with block ends, the lock is released; return hook_path
Release(t) ==
    /\ inst[t].pc = "release"
    /\ lock' = [lock EXCEPT ![inst[t].archive] = Free]
    /\ inst' = [inst EXCEPT ![t].pc = "returned",
                            ![t].result = inst[t].hook_path]
    /\ returned' = Append(returned, t)
    /\ UNCHANGED <<scriptVars, hookFiles, hookDirs, fslog>>

\* The pre-commit hook path install_guard resolves for the checkout
uninstall_path_Resolved(c) ==
    Div(resolve_hooks_dir(c), Path(T_precommit))

\* hook_path = repo_path / ".git" / "hooks" / "pre-commit" of uninstall_guard
uninstall_path(c) ==
    Div(Div(Div(c.repo, Path(T_git)), Path(T_hooks)), Path(T_precommit))

\* uninstall_guard(repo_path), up to "if hook_path.exists()": return False
\* when there is no such file
UninstallLookup(t) ==
    /\ inst[t].pc = "start"
    /\ inst[t].kind = "uninstall"
    /\ LET path == uninstall_path(inst[t].checkout)
       IN IF path \in DOMAIN hookFiles
          THEN /\ inst' = [inst EXCEPT ![t].pc = "unlink",
                                       ![t].hook_path = path,
                                       ![t].before = {u \in Tasks : Ended(u)}]
               /\ returned' = returned
          ELSE /\ inst' = [inst EXCEPT ![t].pc = "returned",
                                       ![t].hook_path = path,
                                       ![t].removed = FALSE,
                                       ![t].before = {u \in Tasks : Ended(u)}]
               /\ returned' = Append(returned, t)
    /\ UNCHANGED <<scriptVars, hookFiles, hookDirs, lock, fslog>>

\* await asyncio.to_thread(hook_path.unlink); return True. unlink raises
\* FileNotFoundError when the file has gone since the test.
UninstallUnlink(t) ==
    /\ inst[t].pc = "unlink"
    /\ IF inst[t].hook_path \in DOMAIN hookFiles
       THEN /\ hookFiles' = [q \in DOMAIN hookFiles \ {inst[t].hook_path} |->
                                hookFiles[q]]
            /\ inst' = [inst EXCEPT ![t].pc = "returned", ![t].removed = TRUE]
            /\ returned' = Append(returned, t)
       ELSE /\ inst' = [inst EXCEPT ![t].pc = "raised"]
            /\ UNCHANGED <<hookFiles, returned>>
    /\ UNCHANGED <<scriptVars, hookDirs, lock, fslog>>

NextInstall ==
    \E t \in Tasks :
        \/ EnsureArchive(t) \/ ResolveHooksDir(t) \/ PreMkdir(t) \/ Render(t)
        \/ Acquire(t) \/ LockedMkdir(t) \/ WriteText(t) \/ Chmod(t)
        \/ Release(t)
        \/ UninstallLookup(t) \/ UninstallUnlink(t)

(* ------------------------------------------- installers: initial states *)
Projects == {"p1", "p2"}

\* What git prints: the value and a newline
Out(text) == Some(text \o <<"\n">>)

T_r == <<"/", "r">>
T_rs == <<"/", "r", "/", "s">>
T_w == <<"/", "w">>
T_rgit == <<"/", "r", "/", ".", "g", "i", "t">>
T_wtgit == T_rgit \o <<"/", "w", "t", "/", "w">>
\* core.hooksPath values: relative, absolute, with a drive prefix
T_h == <<"h">>
T_abs_h == <<"/", "h">>
T_drive_h == <<"c", ":", "/", "h">>
HooksPathOutputs == {Unset, Out(<<>>), Out(T_h), Out(T_abs_h), Out(T_drive_h)}

\* A checkout as the installer sees it: repo_path and the raw output of
\* "config --get core.hooksPath", "rev-parse --show-toplevel" and
\* "rev-parse --git-dir" (Unset: the call fails). repo_path is the top level
\* of the main checkout, a subdirectory of it, or a linked worktree.
CheckoutsOf(repo, top, gitdir) ==
    [repo : {Path(repo)}, hooksPath : HooksPathOutputs,
     toplevel : {Unset, Out(top)}, gitdir : {Unset, Out(gitdir)}]
CheckoutUniverse ==
    CheckoutsOf(T_r, T_r, T_git) \cup CheckoutsOf(T_rs, T_r, T_rgit)
    \cup CheckoutsOf(T_w, T_w, T_wtgit)

K_main ==
    [repo |-> Path(T_r), hooksPath |-> Unset, toplevel |-> Out(T_r),
     gitdir |-> Out(T_git)]
K_worktree ==
    [repo |-> Path(T_w), hooksPath |-> Unset, toplevel |-> Out(T_w),
     gitdir |-> Out(T_wtgit)]

\* An install request before its first step, and the absence of one
Request(kind, project_slug, checkout) ==
    [kind |-> kind, project_slug |-> project_slug, checkout |-> checkout,
     pc |-> "start", archive |-> "", before |-> {}, hooks_dir |-> NoPath,
     hook_path |-> NoPath, script |-> NoScript, result |-> NoPath,
     removed |-> FALSE]
NoRequest ==
    [Request("pre-commit", "p1", K_main) EXCEPT !.pc = "none"]

Kinds == {"pre-commit", "pre-push"}
\* A hook file somebody else put there
Foreign == [content |-> [hook |-> "other", root |-> ""], mode |-> Mode644]

\* No script runs while the installers do
ScriptIdle ==
    /\ script = "pre-commit"
    /\ env = [WORKTREES_ENABLED |-> Unset, AGENT_MAIL_GUARD_MODE |-> Unset,
              AGENT_MAIL_BYPASS |-> Unset, AGENT_NAME |-> Unset]
    /\ dirExists = FALSE /\ files = <<>> /\ stdin = <<>> /\ argv = <<>>
    /\ git = Git(<<>>, NoRemotes, {}, {})
    /\ pc = "done" /\ exitCode = 0
    /\ MODE = <<>> /\ ADVISORY = FALSE /\ AGENT_NAME = Unset /\ now = 0
    /\ paths = <<>> /\ tuples = <<>> /\ commits = <<>> /\ changed = <<>>
    /\ cursor = 1 /\ conflicts = <<>> /\ stderr = <<>> /\ listing = <<>>
    /\ did = {} /\ calls = <<>>

\* Concurrent requests, each for either project and one of two checkouts
InitRace ==
    inst \in [Tasks -> {Request(k, p, c) :
                           k \in Kinds, p \in Projects,
                           c \in {K_main, K_worktree}}]

\* One request, for every checkout
InitCheckouts ==
    /\ inst \in [Tasks -> {Request(k, "p1", c) :
                              k \in Kinds, c \in CheckoutUniverse}
                          \cup {NoRequest}]
    /\ inst[1].pc = "start"
    /\ \A t \in Tasks : t > 1 => inst[t] = NoRequest

\* An install and an uninstall for the same checkout, for every checkout
InitRoundTrip ==
    /\ inst \in [Tasks -> {Request(k, "p1", c) :
                              k \in {"pre-commit", "uninstall"},
                              c \in CheckoutUniverse}
                          \cup {NoRequest}]
    /\ inst[1].kind = "pre-commit" /\ inst[1].pc = "start"
    /\ inst[2] = [inst[1] EXCEPT !.kind = "uninstall"]
    /\ \A t \in Tasks : t > 2 => inst[t] = NoRequest

\* The hook file of the first request is absent, or somebody else's; or
\* somebody else's hook is in repo_path/.git/hooks
InitInstall ==
    /\ ScriptIdle
    /\ InitRace \/ InitCheckouts \/ InitRoundTrip
    /\ lock = [a \in Projects |-> Free]
    /\ fslog = <<>> /\ returned = <<>>
    /\ LET dir == resolve_hooks_dir(inst[1].checkout)
           path == Div(dir, Path(HookName(inst[1].kind)))
           old == uninstall_path(inst[1].checkout)
       IN \/ hookFiles = <<>> /\ hookDirs = {}
          \/ hookFiles = (path :> Foreign) /\ hookDirs = {dir}
          \/ /\ inst[2].kind = "uninstall"
             /\ hookFiles = (old :> Foreign)
             /\ hookDirs = {Div(Div(inst[1].checkout.repo, Path(T_git)),
                                Path(T_hooks))}

SpecInstall == InitInstall /\ [][NextInstall]_vars

(* ------------------------------------- a writer beside a running script *)
\* The component that creates and removes reservations works on the
\* directory while a script runs. The loader lists the directory when the
\* record loop starts and reads each file when its turn comes, so only what
\* happens to a file before it is read can reach the script.
Listed == pc \in {"eval", "report", "done"}
Unread(i) == IF pc = "eval" THEN i >= cursor ELSE ~Listed

\* What a write can leave in a file: a complete record, a part of one (no
\* JSON yet), or other bytes that happen to be JSON
WriterValues ==
    {Conflicting, Rec(A_, Some(TRUE), Future, P_sa), CorruptFile, ArrayFile}

\* A new file appears in the directory before it is listed
WriterCreate(v) ==
    /\ dirExists /\ ~Listed
    /\ Len(files) < MaxRecords
    /\ files' = Append(files, v)
    /\ UNCHANGED <<script, env, dirExists, git, stdin, argv, installer, pc,
                   config,
                   now, lists, cursor, conflicts, stderr, listing, exitCode,
                   did, calls>>

\* A file that has not been read is rewritten, truncated or corrupted
WriterWrite(i, v) ==
    /\ dirExists /\ i \in 1..Len(files) /\ Unread(i)
    /\ files[i] # v
    /\ files' = [files EXCEPT ![i] = v]
    /\ UNCHANGED <<script, env, dirExists, git, stdin, argv, installer, pc,
                   config,
                   now, lists, cursor, conflicts, stderr, listing, exitCode,
                   did, calls>>

\* A file is deleted: before the listing it is gone from the directory,
\* after it read_text fails on it
WriterDelete(i) ==
    /\ dirExists /\ i \in 1..Len(files) /\ Unread(i)
    /\ files' = IF Listed
                THEN [files EXCEPT ![i] = CorruptFile]
                ELSE SubSeq(files, 1, i - 1) \o SubSeq(files, i + 1, Len(files))
    /\ files' # files
    /\ UNCHANGED <<script, env, dirExists, git, stdin, argv, installer, pc,
                   config,
                   now, lists, cursor, conflicts, stderr, listing, exitCode,
                   did, calls>>

\* The whole directory is removed, with what is in it
WriterRemoveDir ==
    /\ dirExists /\ pc # "done"
    /\ dirExists' = FALSE
    /\ files' = IF Listed
                THEN [i \in 1..Len(files) |->
                         IF Unread(i) THEN CorruptFile ELSE files[i]]
                ELSE <<>>
    /\ UNCHANGED <<script, env, git, stdin, argv, installer, pc, config, now,
                   lists,
                   cursor, conflicts, stderr, listing, exitCode, did, calls>>

Writer ==
    \/ \E v \in WriterValues : WriterCreate(v)
    \/ \E i \in 1..MaxRecords, v \in WriterValues : WriterWrite(i, v)
    \/ \E i \in 1..MaxRecords : WriterDelete(i)
    \/ WriterRemoveDir

\* The enabled script with one candidate path and a short directory
ReadInputs ==
    /\ script \in {"pre-commit", "pre-push"}
    /\ env \in EnabledEnvs
    /\ dirExists = TRUE
    /\ files \in SeqsUpTo({Conflicting, CorruptFile}, MaxRecords)
    /\ git \in (IF script = "pre-commit"
                THEN {Git(<<Entry(St_M, P_sa, P_sa)>>, NoRemotes, {}, {})}
                ELSE {Git(<<>>, NoRemotes, {}, {})})
    /\ stdin \in (IF script = "pre-commit" THEN {<<>>}
                  ELSE {<< <<Ref, Sha2, Ref, ZeroSha>> >>})
    /\ argv = <<>>

NextRead == Next \/ Writer

InitRead == Start /\ NoInstall /\ ReadInputs

(* ------------------------------------------------ a script run to its end *)
\* The enabled script under block mode with loops of every length: every
\* index and every failing listing; every stdin, with every failing call
LiveInputs ==
    /\ script \in {"pre-commit", "pre-push"}
    /\ env \in {e \in EnabledEnvs : e.AGENT_MAIL_GUARD_MODE = Unset}
    /\ dirExists = TRUE
    /\ files \in SeqsUpTo({Conflicting, CorruptFile}, MaxRecords)
    /\ git \in (IF script = "pre-commit" THEN CommitGits
                ELSE {g \in PushGits : g.remotes = NoRemotes})
    /\ stdin \in (IF script = "pre-commit" THEN {<<>>} ELSE PushStdins)
    /\ argv = <<>>

\* The script is one process that runs statement after statement: while it
\* has a next step it takes it (every git call returns, stdin ends)
InitLive == Start /\ NoInstall /\ (InitEnv \/ LiveInputs)

SpecLive == InitLive /\ [][Next]_vars /\ WF_vars(Next)

SpecRead == InitRead /\ [][NextRead]_vars

(* ------------------------------------------------------------ claims *)
\* The acting identity, as the environment gives it
Acting == Get(env.AGENT_NAME, "")
\* The candidate paths of the running script
Cands == IF script = "pre-commit" THEN paths ELSE changed
Crashed == "traceback" \in Range(stderr)
\* The record loop ran to its end
Evaluated == "loader" \in did /\ ~Crashed /\ pc \in {"report", "done"}
Finished == pc = "done"
GateOpen == env.WORKTREES_ENABLED \in {Some(V_1), Some(V_Yes)}
BypassSet == env.AGENT_MAIL_BYPASS \in {Some(V_1), Some(V_TRUE)}
WarnSet == env.AGENT_MAIL_GUARD_MODE \in {Some(V_warn), Some(V_Adv), Some(V_advisory)}
IsRecord(f) == f.json = "object"
\* ... whose path_pattern is a string, as a reservation record's is
HasTextPattern(f) == IsRecord(f) /\ f.pattern_json = "string"
SelfOwned(f) == IsRecord(f) /\ f.agent = Some(Acting)
\* expires_ts is a comparable instant before now
PastExpiry(f) ==
    IsRecord(f) /\ f.expires_ts.kind = "aware" /\ f.expires_ts.t < now
\* The pattern of f meets path p under the comparison of the running script
Meets(f, p) ==
    IF script = "pre-commit"
    THEN CommitMatch(p, Get(f.path_pattern, <<>>))
    ELSE PushMatch(p, Strip(Get(f.path_pattern, <<>>)))

RECURSIVE ConflictsOfFiles(_)
\* The conflict list of a whole directory: a function of the records, the
\* identity, now and the candidate paths, and not of the mode
ConflictsOfFiles(fs) ==
    IF fs = <<>> THEN <<>>
    ELSE (IF IsRecord(Head(fs)) THEN RecordConflicts(Head(fs)) ELSE <<>>)
         \o ConflictsOfFiles(Tail(fs))

\* C1: with the gate on, bypass off and AGENT_NAME set, a finished evaluation
\* with a non-empty conflict list exits 1 under block (also for an unset,
\* empty or unrecognised mode) and exits 0 under warn, advisory or adv; in
\* both cases the conflict list is the same function of the input and is
\* written whole to stderr.
C1_ModeMatrix ==
    (Finished /\ Evaluated /\ conflicts # <<>>)
        => /\ GateOpen /\ ~BypassSet /\ Acting # ""
           /\ conflicts = ConflictsOfFiles(files)
           /\ listing = conflicts
           /\ "conflicts" \in Range(stderr)
           /\ exitCode = IF WarnSet THEN 0 ELSE 1

C1_Witness ==
    /\ Finished /\ Evaluated /\ conflicts # <<>>
    /\ script = "pre-push"
    /\ env.AGENT_MAIL_GUARD_MODE = Some(V_Adv)
    /\ exitCode = 0

\* C2: Scenario A at commit time: one unexpired exclusive record of B whose
\* pattern equals the one staged, modified path p; A acts, mode block: the
\* conflict list is exactly <<(p, B, p)>>, no triple repeated, and the exit
\* status is 1.
C2_ScenarioA ==
    (/\ Finished /\ Evaluated
     /\ script = "pre-commit"
     /\ Acting = A_ /\ ~WarnSet
     /\ files = <<Conflicting>>
     /\ git.index = <<Entry(St_M, P_sa, P_sa)>> /\ git.fails = {})
        => /\ conflicts = << <<P_sa, B_, P_sa>> >>
           /\ exitCode = 1

\* C3: no conflict triple names the acting agent as holder, and a directory
\* whose records are all owned by the acting agent gives no conflict and
\* exit 0, whatever the patterns match.
C3_SelfExempt ==
    /\ \A i \in 1..Len(conflicts) : conflicts[i][2] # Acting
    /\ (Finished /\ Acting # "" /\ \A i \in 1..Len(files) : SelfOwned(files[i]))
           => conflicts = <<>> /\ exitCode = 0

C3_Witness ==
    /\ Finished /\ Evaluated
    /\ files # <<>>
    /\ \A i \in 1..Len(files) : SelfOwned(files[i])
    /\ \E i \in 1..Len(files), j \in 1..Len(Cands) : Meets(files[i], Cands[j])
    /\ exitCode = 0

\* C4: if every record of the directory is owned by the acting agent, or has
\* an expires_ts in the past, or has a pattern that meets no candidate path
\* in either direction, the conflict list is empty and the script exits 0.
C4_NoFalseConflicts ==
    (/\ Finished /\ Acting # ""
     /\ \A i \in 1..Len(files) :
           \/ files[i].json = "invalid"
           \/ SelfOwned(files[i])
           \/ PastExpiry(files[i])
           \/ HasTextPattern(files[i])
              /\ \A j \in 1..Len(Cands) : ~Meets(files[i], Cands[j]))
        => conflicts = <<>> /\ exitCode = 0

C4_Witness ==
    /\ Finished /\ Evaluated
    /\ Len(files) = 2 /\ Cands # <<>>
    /\ PastExpiry(files[1]) /\ ~SelfOwned(files[1])
    /\ \E j \in 1..Len(Cands) : Meets(files[1], Cands[j])
    /\ SelfOwned(files[2])
    /\ exitCode = 0

\* The pattern as each script compares and reports it
PatternOf(f) ==
    IF script = "pre-commit" THEN Get(f.path_pattern, <<>>)
    ELSE Strip(Get(f.path_pattern, <<>>))
\* Glob match in one direction, on the strings the running script compares
GlobMatch(name, pat) ==
    IF script = "pre-commit" THEN fnmatchcase(name, pat)
    ELSE fnmatchcase(PushNormalize(name), PushNormalize(pat))
\* A record another agent holds, not expired, with a pattern
LiveForeign(f) ==
    /\ HasTextPattern(f) /\ ~SelfOwned(f) /\ ~PastExpiry(f)
    /\ PatternOf(f) # <<>>
\* The triple of record f and candidate path p is in the conflict list
Reported(f, p) ==
    \E k \in 1..Len(conflicts) :
        conflicts[k] = <<p, Get(f.agent, None), PatternOf(f)>>

\* C5 as written: every record that is not self-owned, not expired and has a
\* pattern yields a triple for every candidate path its pattern matches in
\* either direction.
C5_Original ==
    Evaluated =>
        \A i \in 1..Len(files), j \in 1..Len(Cands) :
            (/\ LiveForeign(files[i])
             /\ \/ GlobMatch(Cands[j], PatternOf(files[i]))
                \/ GlobMatch(PatternOf(files[i]), Cands[j]))
                => Reported(files[i], Cands[j])

\* C5 (amended): as C5, for the records the phase considers: at push time a
\* record marked exclusive:false is left out.
C5_Bidirectional ==
    Evaluated =>
        \A i \in 1..Len(files), j \in 1..Len(Cands) :
            (/\ LiveForeign(files[i])
             /\ script = "pre-push" => Get(files[i].exclusive, TRUE)
             /\ \/ GlobMatch(Cands[j], PatternOf(files[i]))
                \/ GlobMatch(PatternOf(files[i]), Cands[j]))
                => Reported(files[i], Cands[j])

\* The path read as a glob matches the pattern, and not the other way round
C5_Witness ==
    /\ Evaluated /\ Finished
    /\ \E i \in 1..Len(files), j \in 1..Len(Cands) :
          /\ LiveForeign(files[i])
          /\ files[i].exclusive # Some(FALSE)
          /\ ~GlobMatch(Cands[j], PatternOf(files[i]))
          /\ GlobMatch(PatternOf(files[i]), Cands[j])
          /\ Reported(files[i], Cands[j])

\* C6 as written: a record whose expires_ts equals now (or is earlier) is
\* inert and gives no conflict; one whose expires_ts is later is live.
C6_Boundary ==
    (Evaluated /\ Len(files) = 1 /\ IsRecord(files[1])
     /\ files[1].expires_ts.kind = "aware")
        => /\ files[1].expires_ts.t <= now => conflicts = <<>>
           /\ (/\ files[1].expires_ts.t > now
               /\ LiveForeign(files[1])
               /\ Get(files[1].exclusive, TRUE)
               /\ \E j \in 1..Len(Cands) : Meets(files[1], Cands[j]))
                  => conflicts # <<>>

Absent == [kind |-> "absent", t |-> 0]
Malformed(f) ==
    HasTextPattern(f) /\ f.expires_ts.kind \in {"garbage", "naive"}

\* C7: a record whose expires_ts cannot be parsed or compared is not dropped
\* and adds to the conflict list exactly what the same record without
\* expires_ts adds.
C7_MalformedExpiry ==
    [][(pc = "eval" /\ Malformed(files[cursor]))
          => /\ pc' # "done"
             /\ conflicts' = conflicts \o
                  RecordConflicts([files[cursor] EXCEPT !.expires_ts = Absent])
      ]_vars

C7_Witness ==
    /\ Evaluated /\ Finished
    /\ \E i \in 1..Len(files), j \in 1..Len(Cands) :
          /\ Malformed(files[i])
          /\ Reported(files[i], Cands[j])
    /\ exitCode = 1

\* C8: a live, matching record of another agent marked exclusive:false gives
\* no conflict at push time and a conflict at commit time, for the same
\* acting agent, candidate paths and record; a record without the field
\* counts as exclusive in both.
C8_ExclusivePhase ==
    (Evaluated /\ Len(files) = 1 /\ LiveForeign(files[1]))
        => LET f == files[1]
               meets == \E j \in 1..Len(Cands) : Meets(f, Cands[j])
           IN /\ (f.exclusive = Some(FALSE) /\ meets)
                    => /\ script = "pre-push" => conflicts = <<>>
                       /\ script = "pre-commit" => conflicts # <<>>
                       /\ PushRecord(f, Acting, now, Cands) = <<>>
                       /\ (\E j \in 1..Len(Cands) :
                              CommitMatch(Cands[j], Get(f.path_pattern, <<>>)))
                             => CommitRecord(f, Acting, now, Cands) # <<>>
              /\ (f.exclusive = Unset /\ meets) => conflicts # <<>>

C8_Witness ==
    /\ Evaluated /\ Finished
    /\ script = "pre-push"
    /\ Len(files) = 1 /\ LiveForeign(files[1])
    /\ files[1].exclusive = Some(FALSE)
    /\ \E j \in 1..Len(Cands) : Meets(files[1], Cands[j])
    /\ CommitRecord(files[1], Acting, now, Cands) # <<>>
    /\ conflicts = <<>> /\ exitCode = 0

GateShut ==
    env.WORKTREES_ENABLED \in {Unset, Some(<<>>), Some(V_0), Some(V_no)}

\* C9: when WORKTREES_ENABLED is unset, empty or not in the truthy set, the
\* script exits 0 as its first action: no identity check, no access to the
\* reservation directory, no git subprocess, nothing on stderr.
C9_Gate ==
    GateShut
        => /\ pc \in {"gate", "done"}
           /\ Finished => exitCode = 0
           /\ did = {} /\ stderr = <<>> /\ AGENT_NAME = Unset

C9_Witness ==
    /\ Finished /\ exitCode = 0
    /\ env.WORKTREES_ENABLED = Some(V_no)
    /\ env.AGENT_NAME = Unset
    /\ dirExists /\ files = <<Conflicting>>

\* C10: with the gate on and AGENT_MAIL_BYPASS truthy the script exits 0 and
\* in that run never starts the loader, never touches the reservation
\* directory and starts no git subprocess, also without AGENT_NAME and with
\* conflicting reservations present.
C10_Bypass ==
    (GateOpen /\ BypassSet)
        => /\ pc \in {"gate", "mode", "bypass", "done"}
           /\ did = {}
           /\ Finished => exitCode = 0 /\ stderr = <<"bypass">>

C10_Witness ==
    /\ Finished /\ exitCode = 0
    /\ GateOpen /\ env.AGENT_MAIL_BYPASS = Some(V_TRUE)
    /\ env.AGENT_NAME = Unset
    /\ dirExists /\ files = <<Conflicting>>

\* The scripts' positions up to and including the identity check
Prefix == {"gate", "mode", "bypass", "identity"}
BypassOff == env.AGENT_MAIL_BYPASS \in {Unset, Some(V_0)}

\* C11: with the gate on and bypass off, an unset or empty AGENT_NAME ends
\* either script with status 1 and the identity message alone on stderr, in
\* every mode and whether or not the reservation directory exists, before the
\* directory is examined and before any git subprocess or stdin read.
C11_MissingIdentity ==
    (GateOpen /\ BypassOff /\ env.AGENT_NAME \in {Unset, Some("")})
        => /\ pc \in Prefix \cup {"done"}
           /\ did = {}
           /\ Finished => exitCode = 1 /\ stderr = <<"identity">>

C11_Witness ==
    /\ Finished /\ exitCode = 1 /\ stderr = <<"identity">>
    /\ script = "pre-push"
    /\ GateOpen /\ BypassOff /\ env.AGENT_NAME = Some("")
    /\ WarnSet /\ ~dirExists

\* C12: with the gate on, bypass off and AGENT_NAME set, a missing
\* reservation directory ends either script with status 0 and nothing on
\* stderr: no git subprocess, no stdin read, no record loaded. The directory
\* test is the first thing a run touches and comes after the gate, bypass and
\* identity checks.
C12_ScenarioC ==
    /\ (GateOpen /\ BypassOff /\ Acting # "" /\ ~dirExists)
          => /\ pc \in Prefix \cup {"direxists", "done"}
             /\ did \subseteq {"dir"}
             /\ stderr = <<>> /\ now = 0
             /\ Finished => exitCode = 0 /\ did = {"dir"}
    /\ did # {}
          => /\ "dir" \in did /\ pc \notin Prefix
             /\ GateOpen /\ BypassOff /\ AGENT_NAME = env.AGENT_NAME
             /\ Acting # ""

C12_Witness ==
    /\ Finished /\ exitCode = 0 /\ did = {"dir"}
    /\ script = "pre-push" /\ stdin # <<>>
    /\ GateOpen /\ BypassOff /\ Acting = B_ /\ ~WarnSet
    /\ ~dirExists

\* C13 as written: a file of the directory that cannot be read, is not valid
\* JSON, holds JSON that is no object, or holds an object whose path_pattern
\* is no string, is skipped: the run does not abort, and its conflict list
\* and exit status are those of the directory without such files.
C13_LoaderFailOpen ==
    (Finished /\ "loader" \in did)
        => LET kept == SelectSeq(files, HasTextPattern)
           IN /\ ~Crashed
              /\ conflicts = ConflictsOfFiles(kept)
              /\ exitCode =
                    IF ConflictsOfFiles(kept) # <<>> /\ ~WarnSet THEN 1 ELSE 0

\* C14 as written: the exit status is 0 or 1, and it is 1 only when
\* AGENT_NAME is missing (gate on, bypass off) or when a non-empty conflict
\* list is reported under block mode; with AGENT_NAME set and mode warn,
\* advisory or adv it is 0.
C14_ExitContract ==
    Finished
        => /\ exitCode \in {0, 1}
           /\ exitCode = 1
                => \/ GateOpen /\ BypassOff /\ Acting = ""
                   \/ conflicts # <<>> /\ listing = conflicts /\ ~WarnSet
           /\ (Acting # "" /\ WarnSet) => exitCode = 0

\* pre-commit has run both listings without a failure
ListingDone ==
    /\ script = "pre-commit" /\ git.fails = {} /\ "git" \in did
    /\ pc \in {"paths-check", "load", "eval", "report", "done"}

\* C15 as written: once both listings have run, the old and the new path of
\* every staged rename are among the candidate paths, whatever else is
\* staged before or after it; so a live record of another agent whose
\* pattern meets the old or the new path is reported with that path.
C15_RenameCoverage ==
    /\ ListingDone
          => \A i \in 1..Len(git.index) :
                IsRename(git.index[i])
                    => /\ git.index[i].old \in Range(paths)
                       /\ git.index[i].new \in Range(paths)
    /\ (ListingDone /\ Evaluated)
          => \A i \in 1..Len(git.index), k \in 1..Len(files) :
                (IsRename(git.index[i]) /\ LiveForeign(files[k]))
                    => /\ Meets(files[k], git.index[i].old)
                            => Reported(files[k], git.index[i].old)
                       /\ Meets(files[k], git.index[i].new)
                            => Reported(files[k], git.index[i].new)

\* pre-commit is past its try block, in which a git call failed
ListingFailed ==
    /\ script = "pre-commit" /\ git.fails # {} /\ "git" \in did
    /\ pc \in {"paths-check", "load", "eval", "report", "done"}

\* C16 as written: when the name-only listing or the name-status listing
\* fails, the candidate path set is empty, no record is evaluated and the
\* script exits 0.
C16_TransportFailOpen ==
    ListingFailed
        => /\ paths = <<>>
           /\ "loader" \notin did /\ conflicts = <<>>
           /\ Finished => exitCode = 0

\* Requests t and u are for the same project
SameProject(t, u) == inst[t].project_slug = inst[u].project_slug
\* The request is inside its "async with archive_write_lock" block
InLockedBlock(t) == inst[t].pc \in {"mkdir", "write", "chmod", "release"}

\* C17: for two install requests of the same project, no write or chmod of
\* one falls between the write and the chmod of the other, and a request
\* writes and chmods only while it holds the project's archive write lock.
C17_InstallSerialization ==
    /\ \A t \in Tasks : InLockedBlock(t) => lock[inst[t].archive] = t
    /\ \A t, u \in Tasks :
          (t # u /\ SameProject(t, u))
              => /\ ~(InLockedBlock(t) /\ InLockedBlock(u))
                 /\ \A i, j, k \in 1..Len(fslog) :
                       (i < j /\ j < k)
                           => ~(/\ fslog[i] = [task |-> t, op |-> "write"]
                                /\ fslog[j].task = u
                                /\ fslog[k] = [task |-> t, op |-> "chmod"])

\* Two requests of one project for the same hook file, both done: each
\* one's write and chmod are adjacent in the log
C17_Witness ==
    \E t, u \in Tasks :
        /\ t # u /\ SameProject(t, u)
        /\ inst[t].hook_path = inst[u].hook_path
        /\ returned = <<u, t>>
        /\ u \notin inst[t].before
        /\ [i \in 1..Len(fslog) |-> fslog[i].task] = <<u, u, t, t>>

\* What a git query printed, without the newline; empty when it failed
Printed(o) == IF o = Unset THEN <<>> ELSE SubSeq(o[1], 1, Len(o[1]) - 1)
\* The path made of base and further components
Under(base, comps) == [abs |-> base.abs, parts |-> base.parts \o comps]
Resolved(t) ==
    /\ inst[t].kind # "uninstall"
    /\ inst[t].pc \notin {"none", "start", "resolve"}

\* C18: the install directory of both installers is (a) core.hooksPath when
\* it is configured: as it is when absolute (a leading slash or a drive
\* prefix), else under the top-level directory, or under repo_path when the
\* top level cannot be obtained; (b) otherwise <git-dir>/hooks, a relative
\* git-dir taken under repo_path, so that a linked worktree has a directory
\* of its own; (c) repo_path/.git/hooks when both queries fail. The hook path
\* is that directory's pre-commit, resp. pre-push, and is what is returned.
C18_HooksDirPrecedence ==
    /\ \A t \in Tasks :
          Resolved(t)
              => LET c == inst[t].checkout
                     d == inst[t].hooks_dir
                     hp == Printed(c.hooksPath)
                     top == Printed(c.toplevel)
                     gd == Printed(c.gitdir)
                 IN /\ (hp # <<>> /\ (Head(hp) = "/" \/ hp = T_drive_h))
                          => d = Path(hp)
                    /\ (hp # <<>> /\ Head(hp) # "/" /\ hp # T_drive_h)
                          => d = Under(IF top # <<>> THEN Path(top) ELSE c.repo,
                                       <<hp>>)
                    /\ (hp = <<>> /\ gd # <<>> /\ Head(gd) = "/")
                          => d = Under(Path(gd), <<T_hooks>>)
                    /\ (hp = <<>> /\ gd # <<>> /\ Head(gd) # "/")
                          => d = Under(c.repo, <<gd, T_hooks>>)
                    /\ (hp = <<>> /\ gd = <<>>)
                          => d = Under(c.repo, <<T_git, T_hooks>>)
                    /\ inst[t].pc # "premkdir"
                          => inst[t].hook_path
                               = Under(d, <<HookName(inst[t].kind)>>)
                    /\ inst[t].pc = "returned"
                          => inst[t].result = Under(d, <<T_precommit>>)
    /\ \A t, u \in Tasks :
          (/\ Resolved(t) /\ Resolved(u)
           /\ inst[t].checkout = K_main /\ inst[u].checkout = K_worktree)
              => inst[t].hooks_dir # inst[u].hooks_dir

\* A relative core.hooksPath, installed from a subdirectory of the checkout
C18_Witness ==
    \E t \in Tasks :
        /\ inst[t].pc = "returned"
        /\ inst[t].checkout.repo = Path(T_rs)
        /\ inst[t].checkout.hooksPath = Out(T_h)
        /\ inst[t].checkout.toplevel = Out(T_r)
        /\ inst[t].checkout.gitdir = Out(T_rgit)
        /\ inst[t].result = Path(<<"/", "r", "/", "h", "/">> \o T_precommit)
        /\ inst[t].result \in DOMAIN hookFiles

\* Request t has ended and was the last to run: every other request ended
\* before t started, or has not started
LastEnded(t) ==
    /\ Ended(t)
    /\ \A u \in Tasks \ {t} :
          \/ inst[u].pc \in {"none", "start"}
          \/ Ended(u) /\ u \in inst[t].before

\* C19 as written: when an install (of either hook) is over, it has returned
\* the hook path, and the file there exists, has mode 0755 and holds exactly
\* the script rendered for the project of that install, whatever was there
\* before: a foreign file, or the script of an earlier install for the same
\* or another project.
C19_InstallPostcondition ==
    \A t \in Tasks :
        (LastEnded(t) /\ inst[t].kind # "uninstall")
            => /\ inst[t].pc = "returned"
               /\ inst[t].result \in DOMAIN hookFiles
               /\ hookFiles[inst[t].result]
                    = [content |-> [hook |-> inst[t].kind,
                                    root |-> inst[t].project_slug],
                       mode |-> Mode755]

\* C20 as written: with a writer creating, rewriting, truncating, corrupting
\* and deleting record files (or the directory) at any moment of a run, the
\* script takes no lock, does not end with a failure because of such a file
\* - its exit status is 1 only for conflicts reported under block mode - and
\* its conflict list is that of the complete records it read, each as it was
\* when read.
C20_TolerantRead ==
    /\ lock = <<>>
    /\ Finished
          => /\ ~Crashed
             /\ exitCode = IF conflicts # <<>> /\ ~WarnSet THEN 1 ELSE 0
    /\ (Listed /\ pc # "eval")
          => conflicts = ConflictsOfFiles(SelectSeq(files, HasTextPattern))

\* pre-push has read stdin and run its two loops over tuples and commits
PushListed ==
    /\ script = "pre-push" /\ "stdin" \in did
    /\ pc \in {"now", "load", "eval", "report", "done"}
\* What the fallback diff of tuple t prints, when the fallback runs
FallbackPaths(t) ==
    IF /\ RevListFails(t[2], git)
       /\ ~DiffFails(FallbackRange(t[2], t[4]), git)
    THEN DiffNameOnly(FallbackRange(t[2], t[4]), git.changes, git.worktree)
    ELSE <<>>

\* C21 as written: for a tuple whose rev-list fails, every path the fallback
\* diff prints is among the changed paths that are evaluated, so that a live
\* exclusive record of another agent meeting such a path is reported; and
\* the fallback diff is run only for a tuple whose rev-list failed.
C21_Fallback ==
    /\ PushListed
          => \A i \in 1..Len(tuples) :
                \A p \in Range(FallbackPaths(tuples[i])) :
                    /\ p \in Range(changed)
                    /\ Evaluated
                          => \A k \in 1..Len(files) :
                                (/\ LiveForeign(files[k])
                                 /\ Get(files[k].exclusive, TRUE)
                                 /\ Meets(files[k], p))
                                    => Reported(files[k], p)
    /\ \A n \in 1..Len(calls) :
          calls[n][1] = "diff"
              => \E i \in 1..Len(tuples) :
                    /\ RevListFails(tuples[i][2], git)
                    /\ calls[n][2] = FallbackRange(tuples[i][2], tuples[i][4])

\* The stdin lines that count: at least four fields
Lines4 == {stdin[i] : i \in {j \in 1..Len(stdin) : Len(stdin[j]) >= 4}}
\* The commits line L pushes: reachable from its local id and not reached by
\* the refs of the named remote
Pushed(L) ==
    IF L[2] \in Commits
    THEN Range(RevList(L[2], Reached(git.remotes, RemoteOf(argv))))
    ELSE {}
\* The paths commit c changes; none when its diff cannot be made
ChangedBy(c) == IF c \in git.unreadable THEN {} ELSE Range(git.changes[c])
UnionChanged == UNION {ChangedBy(c) : c \in UNION {Pushed(L) : L \in Lines4}}

\* C22 as written: when rev-list works, the changed paths that are evaluated
\* are the union, over the stdin lines with at least four fields, of the
\* paths changed by every commit the line pushes (a commit whose diff fails
\* adding nothing); so under block mode a live exclusive record of another
\* agent that meets a path of any one pushed ref makes the push exit 1.
C22_Union ==
    (PushListed /\ "rev-list" \notin git.fails)
        => /\ Range(changed) = UnionChanged
           /\ (/\ Finished /\ ~WarnSet
               /\ \E k \in 1..Len(files), p \in UnionChanged :
                     /\ LiveForeign(files[k]) /\ Get(files[k].exclusive, TRUE)
                     /\ Meets(files[k], p))
                 => exitCode = 1

\* most tokens of a name-status listing tried on the parsing loop
MaxTokens == 4
\* Token sequences, well formed or not: statuses and paths in any order (the
\* loop tells tokens apart by their first letter only)
TokenSeqs == SeqsUpTo({St_A, St_R, P_sa}, MaxTokens)

\* The git calls of each kind, in the order they were made
CallsOf(cmd) == SelectSeq(calls, LAMBDA c : c[1] = cmd)

\* Every git command is run once for what it is run for, and never again
\* after a failure
OneAttempt ==
    /\ Len(CallsOf("name-only")) <= 1 /\ Len(CallsOf("name-status")) <= 1
    /\ "name-only" \in git.fails => CallsOf("name-status") = <<>>
    /\ script = "pre-commit" => Len(calls) <= 2
    /\ Len(CallsOf("rev-list")) <= Len(tuples)
    /\ \A k \in 1..Len(CallsOf("rev-list")) :
          CallsOf("rev-list")[k]
            = <<"rev-list", tuples[k][2], RemoteOf(argv)>>
    /\ Len(CallsOf("diff")) <= Len(CallsOf("rev-list"))
    /\ \A n \in 1..Len(calls) :
          calls[n][1] = "diff" => n > 1 /\ calls[n - 1][1] = "rev-list"
    /\ Len(CallsOf("diff-tree")) <= Len(commits)
    /\ \A k \in 1..Len(CallsOf("diff-tree")) :
          CallsOf("diff-tree")[k] = <<"diff-tree", commits[k]>>
    /\ PushListed
          => /\ Len(CallsOf("rev-list")) = Len(tuples)
             /\ Len(CallsOf("diff-tree")) = Len(commits)

\* C23: every run of either script ends, given that each git call returns
\* and stdin ends. The index of the name-status parsing loop grows with
\* every pass, for every token sequence; each git command is run once per
\* tuple, resp. once per listed commit, and is not tried again when it
\* fails; the record loop moves on by one file with every pass.
C23_Termination ==
    /\ <>Finished
    /\ [](pc = "name-status"
            => \A parts \in TokenSeqs, i \in 0..MaxTokens :
                  i < Len(parts)
                      => /\ NextIndex(parts, i) > i
                         /\ NextIndex(parts, i) <= Len(parts))
    /\ []OneAttempt
    /\ [][(pc = "eval" /\ pc' = "eval") => cursor' = cursor + 1]_vars

\* A push of two refs in which a diff-tree failed, then both records read
C23_Witness ==
    /\ Finished /\ script = "pre-push"
    /\ Len(tuples) = 2 /\ Len(commits) = 4
    /\ \E k \in 1..Len(commits) : DiffTreeFails(commits[k], git)
    /\ Len(calls) = 6
    /\ "loader" \in did /\ Len(files) > 0 /\ cursor = Len(files)

\* The names of the staged entries, as text: the path of each entry, and the
\* old path of each rename
StagedNames ==
    {decode(git.index[i].new) : i \in 1..Len(git.index)}
    \cup {decode(git.index[i].old) :
             i \in {j \in 1..Len(git.index) : IsRename(git.index[j])}}

\* C24 as written: in the pre-commit script every candidate path, and so the
\* path of every conflict triple, is the path of a staged entry (for a
\* rename its old or its new path); no status token is taken for a path.
C24_RealPaths ==
    script = "pre-commit"
        => /\ \A k \in 1..Len(paths) : paths[k] \in StagedNames
           /\ \A k \in 1..Len(conflicts) : conflicts[k][1] \in StagedNames

\* Request u is an uninstall made after install t for the same checkout had
\* returned, and is over
UninstallAfter(t, u) ==
    /\ inst[t].kind = "pre-commit" /\ inst[t].pc = "returned"
    /\ inst[u].kind = "uninstall" /\ Ended(u)
    /\ inst[u].checkout = inst[t].checkout
    /\ t \in inst[u].before

\* C25 as written: for every checkout, uninstall_guard called after
\* install_guard returns True and leaves no pre-commit script at the path
\* install_guard returned; it returns False only when no guard script is
\* installed where the installer puts it for that checkout.
C25_RoundTrip ==
    /\ \A t, u \in Tasks :
          UninstallAfter(t, u)
              => /\ inst[u].pc = "returned" /\ inst[u].removed
                 /\ inst[t].result \notin DOMAIN hookFiles
    /\ \A u \in Tasks :
          (/\ inst[u].kind = "uninstall" /\ LastEnded(u)
           /\ inst[u].pc = "returned" /\ ~inst[u].removed)
              => LET path == uninstall_path_Resolved(inst[u].checkout)
                 IN ~(/\ path \in DOMAIN hookFiles
                      /\ hookFiles[path].content.hook = "pre-commit")

\* The orders in which the directory scan can yield the files q. The scripts
\* read the content of each *.json file and never its name, so that renaming
\* the files changes the order of the scan and nothing else.
Orders(q) ==
    {[i \in 1..Len(q) |-> q[s[i]]] :
        s \in {f \in [1..Len(q) -> 1..Len(q)] :
                  \A i, j \in 1..Len(q) : f[i] = f[j] => i = j}}

RECURSIVE LoopOutcome(_, _)
\* The record loop over the files q in that order, from the list acc: a file
\* the loader cannot parse is skipped, an exception of the loop body ends it
LoopOutcome(q, acc) ==
    IF q = <<>> THEN [raised |-> FALSE, conflicts |-> acc]
    ELSE IF RecordRaises(Head(q)) THEN [raised |-> TRUE, conflicts |-> acc]
    ELSE LoopOutcome(Tail(q),
                     IF Head(q).json = "invalid" THEN acc
                     ELSE acc \o RecordConflicts(Head(q)))

\* Exit status and set of listed triples of a run whose scan yields q
Verdict(q) ==
    LET o == LoopOutcome(q, <<>>)
    IN [code |-> IF o.raised \/ (o.conflicts # <<>> /\ ~ADVISORY) THEN 1 ELSE 0,
        triples |-> IF o.raised THEN {} ELSE Range(o.conflicts)]

\* C26: for fixed record contents, acting agent, candidate paths and mode,
\* the exit status and the set of conflict triples of a run that reached the
\* record loop are those of every order in which the directory scan can
\* yield the files (a renaming of the files is a change of that order); and
\* records are not merged: two live records of different other agents that
\* meet the same candidate path (exclusive ones, at pre-push) are both listed
\* with that path, and the list is the concatenation of what each record
\* adds.
C26_OrderIndependent ==
    /\ (Finished /\ "loader" \in did)
          => \A q \in Orders(files) :
                /\ exitCode = Verdict(q).code
                /\ Range(listing) = Verdict(q).triples
    /\ (Finished /\ Evaluated)
          => /\ listing = LoopOutcome(files, <<>>).conflicts
             /\ \A i, j \in 1..Len(files), p \in Range(Cands) :
                   (/\ i # j
                    /\ LiveForeign(files[i]) /\ LiveForeign(files[j])
                    /\ script = "pre-push"
                          => /\ Get(files[i].exclusive, TRUE)
                             /\ Get(files[j].exclusive, TRUE)
                    /\ files[i].agent # files[j].agent
                    /\ Meets(files[i], p) /\ Meets(files[j], p))
                       => /\ Reported(files[i], p) /\ Reported(files[j], p)
                          /\ <<p, Get(files[i].agent, None), PatternOf(files[i])>>
                               # <<p, Get(files[j].agent, None), PatternOf(files[j])>>

\* A finished run over two records, of agents B and C, that both meet s/a:
\* both triples are listed, the exit status is 1, and the scan has another
\* order
C26_Witness ==
    /\ Finished /\ Evaluated /\ exitCode = 1
    /\ Len(files) = 2
    /\ IsRecord(files[1]) /\ IsRecord(files[2])
    /\ files[1].agent = Some(B_) /\ files[2].agent = Some(C_)
    /\ P_sa \in Range(Cands)
    /\ <<P_sa, B_, P_sa>> \in Range(listing)
    /\ <<P_sa, C_, Pat_star>> \in Range(listing)
    /\ <<files[2], files[1]>> \in Orders(files) \ {files}

====
